---- MODULE Spec2Model ----
(***************************************************************************)
(* A model of the vkhr hybrid rendering backend:                           *)
(*   - vkpp::Instance (src/vkpp/instance.cc): capability negotiation, the  *)
(*     process-wide capability cache, construction, move and destruction   *)
(*   - vkhr::embree::HairStyle (src/vkhr/ray_tracer/hair_style.cc): curve   *)
(*     geometry registration and the Kajiya-Kay shading function           *)
(*   - the frame loop of main (src/main.cc)                                *)
(* Each subsystem has its own specification (SpecInstance, SpecFind, ...)  *)
(* over its own variables; the variables of the other subsystems stay at   *)
(* their initial value.                                                    *)
(***************************************************************************)
EXTENDS Integers, Sequences, FiniteSets, TLC

VARIABLES
    \* ---- vkpp::Instance and the Vulkan driver ----
    objs,                 \* Instance objects: storage slot -> fields
    available_layers,     \* static Instance::available_layers (the cache)
    available_extensions, \* static Instance::available_extensions (the cache)
    driver_layers,        \* what vkEnumerateInstanceLayerProperties reports
    driver_extensions,    \* what vkEnumerateInstanceExtensionProperties reports
    layer_queries,        \* number of layer enumerations performed by the driver
    ext_queries,          \* number of extension enumerations performed
    next_handle,          \* next VkInstance the driver hands out
    live_handles,         \* VkInstance handles created and not yet destroyed
    live_messengers,      \* debug messengers created and not yet destroyed
    destroy_count,        \* handle -> number of vkDestroyInstance calls on it
    calls,                \* driver calls issued by the most recent operation
    last_op,              \* the most recent operation and its outcome
    \* ---- Instance::find as a pure function ----
    f_requested, f_available, f_result, f_pc,
    \* ---- vkhr::embree::HairStyle and the ray tracer's Embree scene ----
    h_built,              \* the HairStyle object has been constructed
    h_scene,              \* HairStyle::scene
    h_geometry,           \* HairStyle::geometry, the identifier in the scene
    h_position_thickness, \* HairStyle::position_thickness: allocation and size
    h_next_buffer,        \* the next allocation the vector's storage gets
    h_attached,           \* geometries attached to raytracer.scene, by identifier
    h_loads,              \* number of load calls after the constructor's
    h_last,               \* the input of the most recent load
    q_last,               \* the most recent get_tangent or shade call and its result
    \* ---- HairStyle::kajiya_kay as a pure function ----
    k_args, k_locals, k_pc,
    \* ---- the frame loop of main ----
    m_window_open,        \* window.is_open()
    m_ui_visible,         \* the ImGui overlay is shown
    m_raytracing,         \* rasterizer.get_imgui().do_raytrace()
    m_iterations,         \* loop iterations completed
    m_frames,             \* rasterizer.draw calls so far
    m_calls,              \* calls made by the most recent iteration
    m_pressed,            \* the input actions just pressed in that iteration
    m_done                \* main has left the loop

instVars == << objs, available_layers, available_extensions, driver_layers,
               driver_extensions, layer_queries, ext_queries, next_handle,
               live_handles, live_messengers, destroy_count, calls, last_op >>
findVars == << f_requested, f_available, f_result, f_pc >>
hairVars == << h_built, h_scene, h_geometry, h_position_thickness, h_next_buffer,
               h_attached, h_loads, h_last, q_last >>
shadeVars == << k_args, k_locals, k_pc >>
mainVars == << m_window_open, m_ui_visible, m_raytracing, m_iterations, m_frames,
               m_calls, m_pressed, m_done >>
vars == << instVars, findVars, hairVars, shadeVars, mainVars >>

----------------------------------------------------------------------------
(* Bounds of the model *)
MaxObjs     == 2   \* Instance storage slots
MaxBuilds   == 1   \* Instances constructed under SpecInstance
MaxHandles  == 2   \* VkInstance handles the driver hands out
MaxQueries  == 2   \* direct calls of get_available_* while the cache is empty
MaxReqLen   == 2   \* length of a requested layer / extension list
MaxFindReq  == 3   \* find as a pure function: length of the requested list
MaxFindAvail == 2  \* find as a pure function: length of the available list
MaxVertices == 3   \* control points of a hair strand
MaxLoads    == 2   \* load calls after the constructor's
MaxComp     == 1   \* largest component of a tangent or light vector
MaxFrames   == 3   \* iterations of the frame loop

----------------------------------------------------------------------------
(* Capabilities (vkpp::Layer, vkpp::Extension) *)

DebugExt        == "VK_EXT_debug_utils"
ValidationLayer == "VK_LAYER_LUNARG_standard_validation"
OtherExt        == "VK_KHR_surface"
OtherLayer      == "VK_LAYER_LUNARG_monitor"

ExtNames   == { DebugExt, OtherExt }
LayerNames == { ValidationLayer, OtherLayer }

\* A capability built from a name alone (the requested lists, and the
\* brace-initialised { "VK_EXT_debug_utils" } of the constructor).
Named(n) == [name |-> n, version |-> 0]
\* A capability converted from the driver's VkLayerProperties /
\* VkExtensionProperties record: it carries the driver's version.
Reported(n) == [name |-> n, version |-> 1]

\* operator== of Layer / Extension: equality is by name.
CapEq(a, b) == a.name = b.name

Names(list) == { list[i].name : i \in 1..Len(list) }

SeqsUpTo(S, n) == UNION { [1..k -> S] : k \in 0..n }

\* Sequences without repetition over S (a driver reports each name once).
DistinctSeqs(S) ==
    { s \in SeqsUpTo(S, Cardinality(S)) :
        \A i, j \in 1..Len(s) : i # j => s[i] # s[j] }

----------------------------------------------------------------------------
(* Instance::find(extensions, available) and Instance::find(layers, available) *)

RECURSIVE ScanAvailableLast(_, _, _)
ScanAvailableLast(c, available, found) ==
    IF available = <<>> THEN found
    ELSE ScanAvailableLast(c, Tail(available), CapEq(c, Head(available)))

\* The inner loop: found is set when an available capability equals c and is
\* never cleared again.
RECURSIVE ScanAvailable(_, _, _)
ScanAvailable(c, available, found) ==
    IF available = <<>> THEN found
    ELSE ScanAvailable(c, Tail(available),
                       IF CapEq(c, Head(available)) THEN TRUE ELSE found)

\* The outer loop over the requested extensions: push_back when not found.
RECURSIVE findExtensionsLoop(_, _, _)
findExtensionsLoop(extensions, available, missing_extensions) ==
    IF extensions = <<>> THEN missing_extensions
    ELSE LET extension == Head(extensions)
             extension_found == ScanAvailable(extension, available, FALSE)
         IN  findExtensionsLoop(Tail(extensions), available,
                 IF ~extension_found THEN Append(missing_extensions, extension)
                                     ELSE missing_extensions)

findExtensionsFirstOnly(extensions, available) ==
    findExtensionsLoop(IF extensions = <<>> THEN <<>> ELSE << Head(extensions) >>,
                       available, <<>>)

findExtensions(extensions, available) ==
    findExtensionsLoop(extensions, available, <<>>)

RECURSIVE findLayersLoop(_, _, _)
findLayersLoop(layers, available, missing_layers) ==
    IF layers = <<>> THEN missing_layers
    ELSE LET layer == Head(layers)
             layer_found == ScanAvailable(layer, available, FALSE)
         IN  findLayersLoop(Tail(layers), available,
                 IF ~layer_found THEN Append(missing_layers, layer)
                                 ELSE missing_layers)

findLayers(layers, available) ==
    findLayersLoop(layers, available, <<>>)

----------------------------------------------------------------------------
(* Instance::collapse: every name followed by a blank, concatenated.  A      *)
(* string is modelled as the sequence of its pieces.                        *)

collapseFirstOnly(list) ==
    IF list = <<>> THEN <<>> ELSE << Head(list).name, " " >>

RECURSIVE collapse(_)
collapse(list) ==
    IF list = <<>> THEN <<>>
    ELSE << Head(list).name, " " >> \o collapse(Tail(list))

----------------------------------------------------------------------------
(* The process-wide cache: get_available_layers / get_available_extensions *)

\* The early return: a non-empty cache is returned as it is.
CacheHit(cache) == cache # <<>>

\* The collection the call returns, which is also the cache afterwards:
\* on a miss the cache is resized and filled from the driver's report.
CacheAfter(cache, driver) == IF CacheHit(cache) THEN cache ELSE driver

\* The enumerations the call performs.
QueriesOf(cache) == IF CacheHit(cache) THEN 0 ELSE 1

----------------------------------------------------------------------------
(* Instance objects *)

Objs    == 1..MaxObjs
Handles == 1..MaxHandles
NullHandle == 0          \* VK_NULL_HANDLE

\* An Instance whose members hold their default values: what the move
\* constructor starts from before it swaps.
DefaultInstance ==
    [ state              |-> "unborn",
      application_info   |-> 0,
      enabled_layers     |-> <<>>,
      enabled_extensions |-> <<>>,
      handle             |-> NullHandle,
      messenger          |-> NullHandle ]

\* A slot whose object no longer exists: the constructor threw ("failed") or
\* the destructor ran ("dead").
Gone(why) == [ DefaultInstance EXCEPT !.state = why ]

NoOp ==
    [ op |-> "none", obj |-> 0, src |-> 0, ok |-> TRUE, kind |-> "none",
      what |-> <<>>, handle |-> NullHandle, messenger |-> NullHandle,
      src_handle |-> NullHandle, layers |-> <<>>, extensions |-> <<>> ]

Call(fn, arg) == [fn |-> fn, arg |-> arg]

\* The number of calls of fn in a call sequence.
CountFn(cs, fn) == Cardinality({ i \in 1..Len(cs) : cs[i].fn = fn })

\* The requested lists name each capability at most once.
RequestedLayerLists ==
    { s \in DistinctSeqs({ Named(n) : n \in LayerNames }) : Len(s) <= MaxReqLen }
RequestedExtLists ==
    { s \in DistinctSeqs({ Named(n) : n \in ExtNames }) : Len(s) <= MaxReqLen }
DriverLayerLists    == DistinctSeqs({ Reported(n) : n \in LayerNames })
DriverExtLists      == DistinctSeqs({ Reported(n) : n \in ExtNames })

\* Lines 65-66 of the constructor: the two nested ifs.  find(X, required)
\* is empty exactly when X is among the required capabilities.
WantsMessengerExtensionOnly(required_layers, required_extensions) ==
    Len(findExtensions(<< Named(DebugExt) >>, required_extensions)) = 0

WantsMessenger(required_layers, required_extensions) ==
    /\ Len(findExtensions(<< Named(DebugExt) >>, required_extensions)) = 0
    /\ Len(findLayers(<< Named(ValidationLayer) >>, required_layers)) = 0

\* DebugMessenger::DebugMessenger(instance, callback): asks the driver for a
\* messenger on the instance; the driver may refuse, and the constructor
\* then throws.
MessengerCreateCalls(instance, dbg_ok) ==
    << Call("vkCreateDebugUtilsMessengerEXT",
            IF dbg_ok THEN instance ELSE NullHandle) >>

\* DebugMessenger::destroy: releases the driver's messenger when it holds one.
MessengerDestroyCalls(messenger) ==
    IF messenger # NullHandle
    THEN << Call("vkDestroyDebugUtilsMessengerEXT", messenger) >>
    ELSE <<>>

\* The driver calls of ~Instance, in the order the destructor issues them.
DestructorCallsHandleFirst(o) ==
    (IF o.handle # NullHandle THEN << Call("vkDestroyInstance", o.handle) >>
                              ELSE <<>>)
    \o MessengerDestroyCalls(o.messenger)

DestructorCalls(o) ==
    MessengerDestroyCalls(o.messenger)
    \o (IF o.handle # NullHandle THEN << Call("vkDestroyInstance", o.handle) >>
                                 ELSE <<>>)

\* swap(lhs, rhs): the five member swaps.  The result is the pair of the
\* new lhs and the new rhs; the slot's liveness is not a member.
swapCopiesHandle(lhs, rhs) ==
    << [ rhs EXCEPT !.state = lhs.state ],
       [ lhs EXCEPT !.state = rhs.state, !.handle = rhs.handle ] >>

swap(lhs, rhs) ==
    << [ lhs EXCEPT !.application_info   = rhs.application_info,
                    !.enabled_layers     = rhs.enabled_layers,
                    !.enabled_extensions = rhs.enabled_extensions,
                    !.handle             = rhs.handle,
                    !.messenger          = rhs.messenger ],
       [ rhs EXCEPT !.application_info   = lhs.application_info,
                    !.enabled_layers     = lhs.enabled_layers,
                    !.enabled_extensions = lhs.enabled_extensions,
                    !.handle             = lhs.handle,
                    !.messenger          = lhs.messenger ] >>

----------------------------------------------------------------------------
(* Instance::Instance(application, required_layers, required_extensions,    *)
(* debug_callback).  vk_ok is the driver's answer to vkCreateInstance and   *)
(* dbg_ok whether the DebugMessenger's constructor returns (it throws when  *)
(* the driver refuses the messenger).                                       *)

\* The text of the exception thrown for missing layers / extensions.
MissingLayersWhat(missing_layers) ==
    << "the layers(s): " >> \o collapse(missing_layers) \o << "are missing!" >>

MissingExtensionsWhat(missing_extensions) ==
    << "extension(s): " >> \o collapse(missing_extensions) \o << "are missing!" >>

Construct(o, required_layers, required_extensions, vk_ok, dbg_ok) ==
    /\ objs[o].state = "unborn"
    /\ LET layers_seen        == CacheAfter(available_layers, driver_layers)
           missing_layers     == findLayers(required_layers, layers_seen)
           exts_seen          == CacheAfter(available_extensions, driver_extensions)
           missing_extensions == findExtensions(required_extensions, exts_seen)
           base == [ NoOp EXCEPT !.op = "construct", !.obj = o,
                                 !.layers = required_layers,
                                 !.extensions = required_extensions ]
           h == next_handle
       IN
       /\ available_layers' = layers_seen
       /\ layer_queries' = layer_queries + QueriesOf(available_layers)
       /\ IF Len(missing_layers) # 0 THEN
             \* line 29: thrown before the extensions are looked at
             /\ last_op' = [ base EXCEPT !.ok = FALSE, !.kind = "missing_layers",
                                         !.what = MissingLayersWhat(missing_layers) ]
             /\ objs' = [ objs EXCEPT ![o] = Gone("failed") ]
             /\ calls' = <<>>
             /\ UNCHANGED << available_extensions, ext_queries, next_handle,
                             live_handles, live_messengers >>
          ELSE
             /\ available_extensions' = exts_seen
             /\ ext_queries' = ext_queries + QueriesOf(available_extensions)
             /\ IF Len(missing_extensions) # 0 THEN
                   /\ last_op' = [ base EXCEPT !.ok = FALSE,
                                     !.kind = "missing_extensions",
                                     !.what = MissingExtensionsWhat(missing_extensions) ]
                   /\ objs' = [ objs EXCEPT ![o] = Gone("failed") ]
                   /\ calls' = <<>>
                   /\ UNCHANGED << next_handle, live_handles, live_messengers >>
                ELSE IF ~vk_ok THEN
                   \* line 62: vkCreateInstance returned an error
                   /\ last_op' = [ base EXCEPT !.ok = FALSE, !.kind = "vk_error",
                                     !.what = << "couldn't create instance!" >> ]
                   /\ objs' = [ objs EXCEPT ![o] = Gone("failed") ]
                   /\ calls' = << Call("vkCreateInstance", NullHandle) >>
                   /\ UNCHANGED << next_handle, live_handles, live_messengers >>
                ELSE
                   /\ h <= MaxHandles
                   /\ next_handle' = h + 1
                   /\ live_handles' = live_handles \cup { h }
                   /\ IF ~WantsMessenger(required_layers, required_extensions) THEN
                         /\ objs' = [ objs EXCEPT ![o] =
                               [ state              |-> "live",
                                 application_info   |-> o,
                                 enabled_layers     |-> required_layers,
                                 enabled_extensions |-> required_extensions,
                                 handle             |-> h,
                                 messenger          |-> NullHandle ] ]
                         /\ last_op' = [ base EXCEPT !.handle = h ]
                         /\ calls' = << Call("vkCreateInstance", h) >>
                         /\ UNCHANGED live_messengers
                      ELSE IF dbg_ok THEN
                         /\ objs' = [ objs EXCEPT ![o] =
                               [ state              |-> "live",
                                 application_info   |-> o,
                                 enabled_layers     |-> required_layers,
                                 enabled_extensions |-> required_extensions,
                                 handle             |-> h,
                                 messenger          |-> h ] ]
                         /\ last_op' = [ base EXCEPT !.handle = h, !.messenger = h ]
                         /\ calls' = << Call("vkCreateInstance", h) >>
                                      \o MessengerCreateCalls(h, dbg_ok)
                         /\ live_messengers' = live_messengers \cup { h }
                      ELSE
                         \* the DebugMessenger's constructor throws out of the
                         \* Instance constructor: ~Instance does not run for an
                         \* object whose constructor did not finish, and handle
                         \* is a raw VkInstance, so nothing destroys it
                         /\ objs' = [ objs EXCEPT ![o] = Gone("failed") ]
                         /\ last_op' = [ base EXCEPT !.ok = FALSE,
                                           !.kind = "messenger_error",
                                           !.what = << "couldn't create debug messenger!" >>,
                                           !.handle = h ]
                         /\ calls' = << Call("vkCreateInstance", h) >>
                                      \o MessengerCreateCalls(h, dbg_ok)
                         /\ UNCHANGED live_messengers
    /\ UNCHANGED << driver_layers, driver_extensions, destroy_count >>

(* Instance::Instance(Instance&&): the new object starts from default       *)
(* members and swaps with the source.                                       *)
MoveConstruct(dst, src) ==
    /\ objs[dst].state = "unborn"
    /\ objs[src].state = "live"
    /\ LET fresh == [ DefaultInstance EXCEPT !.state = "live" ]
           sw    == swap(fresh, objs[src])
       IN  /\ objs' = [ objs EXCEPT ![dst] = sw[1], ![src] = sw[2] ]
           /\ last_op' = [ NoOp EXCEPT !.op = "move_construct", !.obj = dst,
                                       !.src = src,
                                       !.handle = fresh.handle,
                                       !.messenger = fresh.messenger,
                                       !.src_handle = objs[src].handle ]
    /\ calls' = <<>>
    /\ UNCHANGED << available_layers, available_extensions, driver_layers,
                    driver_extensions, layer_queries, ext_queries, next_handle,
                    live_handles, live_messengers, destroy_count >>

\* Instance::operator=(Instance&&): swaps this object with the source (which
\* may be the object itself).
MoveAssign(dst, src) ==
    /\ objs[dst].state = "live"
    /\ objs[src].state = "live"
    /\ LET sw == swap(objs[dst], objs[src])
       IN  /\ objs' = [ objs EXCEPT ![dst] = sw[1], ![src] = sw[2] ]
           /\ last_op' = [ NoOp EXCEPT !.op = "move_assign", !.obj = dst,
                                       !.src = src,
                                       !.handle = objs[dst].handle,
                                       !.messenger = objs[dst].messenger,
                                       !.src_handle = objs[src].handle ]
    /\ calls' = <<>>
    /\ UNCHANGED << available_layers, available_extensions, driver_layers,
                    driver_extensions, layer_queries, ext_queries, next_handle,
                    live_handles, live_messengers, destroy_count >>

\* The number of calls of fn on arg in a call sequence.
CountCalls(cs, fn, arg) ==
    Cardinality({ i \in 1..Len(cs) : cs[i].fn = fn /\ cs[i].arg = arg })

(* Instance::~Instance.                                                     *)
Destroy(o) ==
    /\ objs[o].state = "live"
    /\ LET cs == DestructorCalls(objs[o])
       IN  /\ calls' = cs
           /\ destroy_count' =
                 [ h \in Handles |->
                     destroy_count[h] + CountCalls(cs, "vkDestroyInstance", h) ]
           /\ live_handles' =
                 live_handles \ { h \in Handles :
                                    CountCalls(cs, "vkDestroyInstance", h) > 0 }
           /\ live_messengers' =
                 live_messengers \ { m \in Handles :
                     CountCalls(cs, "vkDestroyDebugUtilsMessengerEXT", m) > 0 }
    /\ objs' = [ objs EXCEPT ![o] = Gone("dead") ]
    /\ last_op' = [ NoOp EXCEPT !.op = "destroy", !.obj = o,
                                !.src = objs[o].application_info,
                                !.handle = objs[o].handle,
                                !.messenger = objs[o].messenger ]
    /\ UNCHANGED << available_layers, available_extensions, driver_layers,
                    driver_extensions, layer_queries, ext_queries, next_handle >>

(* Instance::get_available_layers() called on its own.                      *)
GetAvailableLayers ==
    /\ layer_queries + QueriesOf(available_layers) <= MaxQueries
    /\ available_layers' = CacheAfter(available_layers, driver_layers)
    /\ layer_queries' = layer_queries + QueriesOf(available_layers)
    /\ last_op' = [ NoOp EXCEPT !.op = "get_available_layers",
                                !.layers = CacheAfter(available_layers, driver_layers) ]
    /\ calls' = <<>>
    /\ UNCHANGED << objs, available_extensions, driver_layers, driver_extensions,
                    ext_queries, next_handle, live_handles, live_messengers,
                    destroy_count >>

(* Instance::get_available_extensions() called on its own.                  *)
GetAvailableExtensions ==
    /\ ext_queries + QueriesOf(available_extensions) <= MaxQueries
    /\ available_extensions' = CacheAfter(available_extensions, driver_extensions)
    /\ ext_queries' = ext_queries + QueriesOf(available_extensions)
    /\ last_op' = [ NoOp EXCEPT !.op = "get_available_extensions",
                                !.extensions =
                                    CacheAfter(available_extensions, driver_extensions) ]
    /\ calls' = <<>>
    /\ UNCHANGED << objs, available_layers, driver_layers, driver_extensions,
                    layer_queries, next_handle, live_handles, live_messengers,
                    destroy_count >>

----------------------------------------------------------------------------
(* Instance::find applied to arbitrary requested and available lists *)

FindNames == ExtNames \cup { "VK_EXT_debug_report" }

\* The requested capabilities are built from names; the available ones carry
\* either version.
FindRequestedCaps == { Named(n) : n \in FindNames }
FindCaps == { [name |-> n, version |-> v] : n \in FindNames, v \in {0, 1} }

CallFindExtensions ==
    /\ f_pc = "idle"
    /\ f_result' = findExtensions(f_requested, f_available)
    /\ f_pc' = "extensions"
    /\ UNCHANGED << f_requested, f_available >>

CallFindLayers ==
    /\ f_pc = "idle"
    /\ f_result' = findLayers(f_requested, f_available)
    /\ f_pc' = "layers"
    /\ UNCHANGED << f_requested, f_available >>

----------------------------------------------------------------------------
(* vkhr::embree::HairStyle: the constructor and load *)

\* The index sequence vkhr::HairStyle holds for a strand of v control
\* points: the segments (0,1), (1,2), ... as a line list.
LineList(v) == [ k \in 1..(2 * (v - 1)) |-> ((k - 1) \div 2) + ((k - 1) % 2) ]

\* The hair styles handed to load: a strand and every prefix of its index
\* sequence, those of odd length included.
HairStyles ==
    UNION { { [ vertices |-> v, indices |-> SubSeq(LineList(v), 1, n) ] :
                n \in 0..(2 * (v - 1)) } : v \in 2..MaxVertices }

\* The entries Embree reads from a shared index buffer of `count` items that
\* lie `stride` index elements apart.
StridedView(indices, stride, count) ==
    [ k \in 1..count |-> indices[stride * (k - 1) + 1] ]

\* rtcSetSharedGeometryBuffer(..., RTC_BUFFER_TYPE_INDEX, ...): the stride
\* is two index elements and the item count is indices.size() / 2.
IndexStride == 2
IndexCount(indices) == Len(indices) \div IndexStride

\* The tangents vkhr::HairStyle holds for a strand of v control points, one
\* direction per control point.
StrandTangents(v) ==
    [ k \in 1..v |-> IF k % 2 = 1 THEN << 0, 0, 1 >> ELSE << 0, 1, 0 >> ]

\* The geometry load builds, commits and attaches.
NewGeometry(hair_style, buffer) ==
    [ type            |-> "RTC_GEOMETRY_TYPE_FLAT_LINEAR_CURVE",
      vertex_buffer   |-> buffer,
      vertex_count    |-> hair_style.vertices,
      attribute_count |-> 1,
      tangents        |-> StrandTangents(hair_style.vertices),
      index_stride    |-> IndexStride,
      index_count     |-> IndexCount(hair_style.indices),
      segments        |-> StridedView(hair_style.indices, IndexStride,
                                      IndexCount(hair_style.indices)),
      committed       |-> TRUE ]

\* HairStyle::load.  create_position_thickness_data() returns a fresh vector
\* whose storage replaces the one position_thickness held; rtcAttachGeometry
\* hands out the identifiers 0, 1, 2, ... of the scene in turn.
load(hair_style) ==
    /\ h_position_thickness' = [ buffer |-> h_next_buffer, size |-> hair_style.vertices ]
    /\ h_next_buffer' = h_next_buffer + 1
    /\ h_scene' = "raytracer.scene"
    /\ h_attached' = Append(h_attached, NewGeometry(hair_style, h_next_buffer))
    /\ h_geometry' = Len(h_attached)
    /\ h_last' = [ hair_style |-> hair_style, attached_before |-> Len(h_attached) ]

\* HairStyle::HairStyle(hair_style, raytracer)
HairStyleNew(hair_style) ==
    /\ ~h_built
    /\ h_built' = TRUE
    /\ load(hair_style)
    /\ UNCHANGED h_loads

\* HairStyle::load(hair_style, raytracer) on a constructed object
HairStyleLoad(hair_style) ==
    /\ h_built
    /\ h_loads < MaxLoads
    /\ h_loads' = h_loads + 1
    /\ load(hair_style)
    /\ UNCHANGED h_built

\* HairStyle::get_geometry() const
get_geometry == h_geometry

----------------------------------------------------------------------------
(* HairStyle::kajiya_kay.  A float is a record: not-a-number, or a value.   *)
(* Directions have integer components and colours are in thousandths, so    *)
(* every value of the model is exact in single precision.                   *)

NaN  == [ nan |-> TRUE,  v |-> 0 ]
F(x) == [ nan |-> FALSE, v |-> x ]

FAdd(a, b) == IF a.nan \/ b.nan THEN NaN ELSE F(a.v + b.v)
FSub(a, b) == IF a.nan \/ b.nan THEN NaN ELSE F(a.v - b.v)
FMul(a, b) == IF a.nan \/ b.nan THEN NaN ELSE F(a.v * b.v)

\* std::sqrt: not-a-number for a negative operand.
FSqrt(a) ==
    IF a.nan \/ a.v < 0 THEN NaN
    ELSE F(CHOOSE r \in 0..a.v : r * r <= a.v /\ (r + 1) * (r + 1) > a.v)

\* The powers are cut off at this magnitude: clamp(., 0, 1) is all that reads
\* them.
PowCutoff == 4
Cut(x) == IF x > PowCutoff THEN PowCutoff ELSE IF x < -PowCutoff THEN -PowCutoff ELSE x

\* x to the power p by repeated squaring; the cut-off is applied to every
\* product, which leaves the sign and min(|x|^p, PowCutoff) as the magnitude.
RECURSIVE IntPow(_, _)
IntPow(x, p) ==
    IF p = 0 THEN 1
    ELSE IF p % 2 = 0 THEN LET half == IntPow(x, p \div 2) IN Cut(half * half)
    ELSE Cut(x * IntPow(x, p - 1))

\* std::pow with a whole exponent: pow(x, 0) is 1 for every x.
FPow(a, p) == IF p = 0 THEN F(1) ELSE IF a.nan THEN NaN ELSE F(IntPow(a.v, p))

\* glm::max(x, y) is (x < y) ? y : x and glm::min(x, y) is (y < x) ? y : x;
\* a comparison with not-a-number is false.
GlmMax(x, y) == IF ~x.nan /\ ~y.nan /\ x.v < y.v THEN y ELSE x
GlmMin(x, y) == IF ~x.nan /\ ~y.nan /\ y.v < x.v THEN y ELSE x
\* glm::clamp(x, lo, hi) is min(max(x, lo), hi).
GlmClampBoundsSwapped(x, lo, hi) == GlmMin(GlmMax(x, hi), lo)

GlmClamp(x, lo, hi) == GlmMin(GlmMax(x, lo), hi)

Dot(a, b) == a[1] * b[1] + a[2] * b[2] + a[3] * b[3]

Scale(colour, factor) == [ i \in 1..3 |-> FMul(F(colour[i]), factor) ]

\* The locals of kajiya_kay and the colour it returns.
kajiya_kay_locals(diffuse, specular, p, tangent, light, eye) ==
    LET cosTL == F(Dot(light, tangent))
        cosTE == F(Dot(eye, tangent))
        cosTL_squared == FMul(cosTL, cosTL)
        cosTE_squared == FMul(cosTE, cosTE)
        one_minus_cosTL_squared == FSub(F(1), cosTL_squared)
        one_minus_cosTE_squared == FSub(F(1), cosTE_squared)
        sinTL == FSqrt(one_minus_cosTL_squared)
        sinTE == FSqrt(one_minus_cosTE_squared)
        diffuse_colors == Scale(diffuse, sinTL)
        specular_factor ==
            GlmClamp(FPow(FAdd(FMul(cosTL, cosTE), FMul(sinTL, sinTE)), p), F(0), F(1))
        specular_colors == Scale(specular, specular_factor)
    IN  [ cosTL |-> cosTL, cosTE |-> cosTE,
          one_minus_cosTL_squared |-> one_minus_cosTL_squared,
          one_minus_cosTE_squared |-> one_minus_cosTE_squared,
          sinTL |-> sinTL, sinTE |-> sinTE,
          diffuse_colors |-> diffuse_colors,
          specular_factor |-> specular_factor,
          specular_colors |-> specular_colors,
          result |-> [ i \in 1..3 |-> FAdd(diffuse_colors[i], specular_colors[i]) ] ]

kajiya_kay(diffuse, specular, p, tangent, light, eye) ==
    kajiya_kay_locals(diffuse, specular, p, tangent, light, eye).result

\* shade's constants: the hair's diffuse colour (.32, .228, .128), the
\* exponent 50.0f and the eye direction (0, 0, -1).
HairDiffuse == << 320, 228, 128 >>
Shininess   == 50
EyeDirection == << 0, 0, -1 >>

Vectors(n) == [ 1..3 -> (-n)..n ]

NoLocals == kajiya_kay_locals(<< 0, 0, 0 >>, << 0, 0, 0 >>, 0,
                              << 0, 0, 0 >>, << 0, 0, 0 >>, << 0, 0, 0 >>)

\* The arguments kajiya_kay is applied to.
KajiyaKayArgs ==
    [ diffuse  : { HairDiffuse, << 1000, 1000, 1000 >> },
      specular : { << 1000, 1000, 1000 >>, << 500, 250, 0 >> },
      p        : { 1, 2, Shininess },
      tangent  : Vectors(MaxComp),
      light    : Vectors(MaxComp),
      eye      : { EyeDirection, << 0, 0, 1 >>, << 1, 1, 0 >> } ]

CallKajiyaKay ==
    /\ k_pc = "idle"
    /\ k_locals' = kajiya_kay_locals(k_args.diffuse, k_args.specular, k_args.p,
                                     k_args.tangent, k_args.light, k_args.eye)
    /\ k_pc' = "returned"
    /\ UNCHANGED k_args

----------------------------------------------------------------------------
(* HairStyle::get_tangent and HairStyle::shade on a built object *)

\* rtcInterpolate0 on the vertex attribute of a linear curve: the attribute of
\* the segment's two control points, weighted by the curve parameter u.
rtcInterpolate0(hair_geometry, primitive_id, u) ==
    LET first == hair_geometry.segments[primitive_id + 1] + 1
        a == hair_geometry.tangents[first]
        b == hair_geometry.tangents[first + 1]
    IN  [ i \in 1..3 |-> (1 - u) * a[i] + u * b[i] ]

\* get_tangent: three floats are interpolated into a glm::vec4 whose fourth
\* component, w_uninit until then, is set to 0.
get_tangentLeavesW(hair_geometry, intersection, w_uninit) ==
    LET t == rtcInterpolate0(hair_geometry, intersection.primitive_id, intersection.u)
    IN  << t[1], t[2], t[3], w_uninit >>

get_tangent(hair_geometry, intersection, w_uninit) ==
    LET t == rtcInterpolate0(hair_geometry, intersection.primitive_id, intersection.u)
    IN  << t[1], t[2], t[3], 0 >>

\* The camera's view matrices: a rotation and a translation.
ViewMatrices ==
    { [ rotation |-> << << 1, 0, 0 >>, << 0, 1, 0 >>, << 0, 0, 1 >> >>,
        translation |-> << 0, 0, 0 >> ],
      [ rotation |-> << << 1, 0, 0 >>, << 0, 0, -1 >>, << 0, 1, 0 >> >>,
        translation |-> << 0, 0, -2 >> ] }

\* view_matrix * v for a four-component v.
Transform(view_matrix, v) ==
    [ i \in 1..4 |->
        IF i = 4 THEN v[4]
        ELSE Dot(view_matrix.rotation[i], v) + view_matrix.translation[i] * v[4] ]

Vec3(v) == << v[1], v[2], v[3] >>

\* The light sources: get_vector() is a direction (w = 0) or a position
\* (w = 1), get_intensity() a colour.
LightSources ==
    [ vector    : { << 0, 1, 0, 0 >>, << 0, 0, 1, 0 >>, << 1, 1, 1, 1 >> },
      intensity : { << 1000, 1000, 1000 >> } ]

\* shade's value, given the tangent get_tangent returned.
shade(tangent_at_hit, light_source, view_matrix) ==
    LET view_tangent == Transform(view_matrix, tangent_at_hit)
        light_direction == Transform(view_matrix, light_source.vector)
    IN  kajiya_kay(HairDiffuse, light_source.intensity, Shininess,
                   Vec3(view_tangent), Vec3(light_direction), EyeDirection)

\* The intersections a ray can have with a strand: a segment and an end of it.
Intersections == [ primitive_id : 0..(MaxVertices - 2), u : { 0, 1 } ]

NoQuery == [ op |-> "none", intersection |-> [ primitive_id |-> 0, u |-> 0 ],
             tangent |-> << 0, 0, 0, 0 >>, colour |-> << >> ]

\* rtcGetGeometry(scene, geometry)
rtcGetGeometry == h_attached[h_geometry + 1]

\* HairStyle::get_tangent(intersection) const
GetTangent(intersection, w_uninit) ==
    /\ h_built
    /\ intersection.primitive_id < rtcGetGeometry.index_count
    /\ q_last' = [ op |-> "get_tangent", intersection |-> intersection,
                   tangent |-> get_tangent(rtcGetGeometry, intersection, w_uninit),
                   colour |-> << >> ]
    /\ UNCHANGED << h_built, h_scene, h_geometry, h_position_thickness,
                    h_next_buffer, h_attached, h_loads, h_last >>

\* HairStyle::shade(intersection, light_source, camera)
Shade(intersection, w_uninit, light_source, view_matrix) ==
    /\ h_built
    /\ intersection.primitive_id < rtcGetGeometry.index_count
    /\ LET hit_tangent == get_tangent(rtcGetGeometry, intersection, w_uninit)
       IN  q_last' = [ op |-> "shade", intersection |-> intersection,
                       tangent |-> hit_tangent,
                       colour |-> shade(hit_tangent, light_source, view_matrix) ]
    /\ UNCHANGED << h_built, h_scene, h_geometry, h_position_thickness,
                    h_next_buffer, h_attached, h_loads, h_last >>

----------------------------------------------------------------------------
(* The frame loop of main *)

InputActions == { "quit", "toggle_ui", "switch_renderer", "take_screenshot",
                  "recompile" }

\* The if / else-if chain of lines 53-63: the first action found pressed.
ChosenInputToggleFirst(pressed) ==
    IF "toggle_ui" \in pressed THEN "toggle_ui"
    ELSE IF "quit" \in pressed THEN "quit"
    ELSE IF "switch_renderer" \in pressed THEN "switch_renderer"
    ELSE IF "take_screenshot" \in pressed THEN "take_screenshot"
    ELSE IF "recompile" \in pressed THEN "recompile"
    ELSE "none"

ChosenInput(pressed) ==
    IF "quit" \in pressed THEN "quit"
    ELSE IF "toggle_ui" \in pressed THEN "toggle_ui"
    ELSE IF "switch_renderer" \in pressed THEN "switch_renderer"
    ELSE IF "take_screenshot" \in pressed THEN "take_screenshot"
    ELSE IF "recompile" \in pressed THEN "recompile"
    ELSE "none"

InputCalls(chosen) ==
    IF chosen = "quit" THEN << Call("window.close", "") >>
    ELSE IF chosen = "toggle_ui" THEN << Call("imgui.toggle_visibility", "") >>
    ELSE IF chosen = "switch_renderer" THEN << Call("imgui.toggle_raytracing", "") >>
    ELSE IF chosen = "take_screenshot" THEN << Call("screenshot.save", "render.png") >>
    ELSE IF chosen = "recompile" THEN << Call("rasterizer.recompile_spirv", "") >>
    ELSE <<>>

\* Lines 72-78: the draw calls of one iteration.
RenderCallsRayTracerOnly(do_raytrace) ==
    IF do_raytrace
    THEN << Call("ray_tracer.draw", "scene_graph") >>
    ELSE << Call("rasterizer.draw", "scene_graph") >>

RenderCalls(do_raytrace) ==
    IF do_raytrace
    THEN << Call("ray_tracer.draw", "scene_graph"),
            Call("rasterizer.draw", "ray_tracer.framebuffer") >>
    ELSE << Call("rasterizer.draw", "scene_graph") >>

\* One iteration of the loop.  pressed are the actions just pressed,
\* ui_click whether the overlay's ray tracing box is clicked during
\* imgui.update, close_request whether poll_events sees the window closed.
Iterate(pressed, ui_click, close_request) ==
    /\ ~m_done
    /\ m_window_open
    /\ m_iterations < MaxFrames
    /\ LET chosen == ChosenInput(pressed)
           raytracing_switched ==
               IF chosen = "switch_renderer" THEN ~m_raytracing ELSE m_raytracing
           do_raytrace == IF ui_click THEN ~raytracing_switched ELSE raytracing_switched
           render == RenderCalls(do_raytrace)
       IN  /\ m_ui_visible' = IF chosen = "toggle_ui" THEN ~m_ui_visible ELSE m_ui_visible
           /\ m_raytracing' = do_raytrace
           /\ m_window_open' = ~(chosen = "quit" \/ close_request)
           /\ m_calls' = InputCalls(chosen)
                          \o << Call("camera.control", ""),
                                Call("scene_graph.traverse_nodes", ""),
                                Call("imgui.update", "scene_graph") >>
                          \o render
                          \o << Call("window.poll_events", "") >>
           /\ m_frames' = m_frames + CountFn(render, "rasterizer.draw")
    /\ m_iterations' = m_iterations + 1
    /\ m_pressed' = pressed
    /\ UNCHANGED m_done

\* The loop condition fails: main returns 0.
LoopExit ==
    /\ ~m_done
    /\ ~m_window_open
    /\ m_done' = TRUE
    /\ UNCHANGED << m_window_open, m_ui_visible, m_raytracing, m_iterations,
                    m_frames, m_calls, m_pressed >>

----------------------------------------------------------------------------
(* Initial states and specifications *)

InstIdle ==
    /\ objs = [ o \in Objs |-> DefaultInstance ]
    /\ available_layers = <<>>
    /\ available_extensions = <<>>
    /\ layer_queries = 0
    /\ ext_queries = 0
    /\ next_handle = 1
    /\ live_handles = {}
    /\ live_messengers = {}
    /\ destroy_count = [ h \in Handles |-> 0 ]
    /\ calls = <<>>
    /\ last_op = NoOp

DriverOffersNothing ==
    /\ driver_layers = <<>>
    /\ driver_extensions = <<>>

FindIdle ==
    /\ f_requested = <<>>
    /\ f_available = <<>>
    /\ f_result = <<>>
    /\ f_pc = "idle"

HairIdle ==
    /\ h_built = FALSE
    /\ h_scene = "null"
    /\ h_geometry = 0
    /\ h_position_thickness = [ buffer |-> 0, size |-> 0 ]
    /\ h_next_buffer = 1
    /\ h_attached = <<>>
    /\ h_loads = 0
    /\ h_last = [ hair_style |-> [ vertices |-> 0, indices |-> <<>> ],
                  attached_before |-> 0 ]
    /\ q_last = NoQuery

ShadeIdle ==
    /\ k_args = [ diffuse |-> << 0, 0, 0 >>, specular |-> << 0, 0, 0 >>, p |-> 0,
                  tangent |-> << 0, 0, 0 >>, light |-> << 0, 0, 0 >>,
                  eye |-> << 0, 0, 0 >> ]
    /\ k_locals = NoLocals
    /\ k_pc = "idle"

MainIdle ==
    /\ m_window_open = TRUE
    /\ m_ui_visible = TRUE
    /\ m_raytracing = FALSE
    /\ m_iterations = 0
    /\ m_frames = 0
    /\ m_calls = <<>>
    /\ m_pressed = {}
    /\ m_done = FALSE

InitInstance ==
    /\ InstIdle
    /\ driver_layers \in DriverLayerLists
    /\ driver_extensions \in DriverExtLists
    /\ FindIdle /\ HairIdle /\ ShadeIdle /\ MainIdle

NextInstance ==
    \/ \E o \in 1..MaxBuilds, ls \in RequestedLayerLists, es \in RequestedExtLists,
          vk_ok \in BOOLEAN, dbg_ok \in BOOLEAN :
          /\ Construct(o, ls, es, vk_ok, dbg_ok)
          /\ UNCHANGED << findVars, hairVars, shadeVars, mainVars >>
    \/ \E o \in 1..MaxBuilds :
          Destroy(o) /\ UNCHANGED << findVars, hairVars, shadeVars, mainVars >>
    \/ GetAvailableLayers /\ UNCHANGED << findVars, hairVars, shadeVars, mainVars >>
    \/ GetAvailableExtensions /\ UNCHANGED << findVars, hairVars, shadeVars, mainVars >>

\* Construction and destruction of Instances under every driver report and
\* every requested layer and extension list.
SpecInstance == InitInstance /\ [][NextInstance]_vars

\* Ownership: the driver offers every capability and the Instances are built
\* either plain or with the diagnostics pair, then moved and destroyed.
LifetimeRequests ==
    { << <<>>, <<>> >>,
      << << Named(ValidationLayer) >>, << Named(DebugExt) >> >> }

InitLifetime ==
    /\ InstIdle
    /\ driver_layers = << Reported(ValidationLayer), Reported(OtherLayer) >>
    /\ driver_extensions = << Reported(DebugExt), Reported(OtherExt) >>
    /\ FindIdle /\ HairIdle /\ ShadeIdle /\ MainIdle

NextLifetime ==
    \/ \E o \in Objs, rq \in LifetimeRequests, vk_ok \in BOOLEAN, dbg_ok \in BOOLEAN :
          /\ Construct(o, rq[1], rq[2], vk_ok, dbg_ok)
          /\ UNCHANGED << findVars, hairVars, shadeVars, mainVars >>
    \/ \E dst \in Objs, src \in Objs :
          MoveConstruct(dst, src) /\ UNCHANGED << findVars, hairVars, shadeVars, mainVars >>
    \/ \E dst \in Objs, src \in Objs :
          MoveAssign(dst, src) /\ UNCHANGED << findVars, hairVars, shadeVars, mainVars >>
    \/ \E o \in Objs :
          Destroy(o) /\ UNCHANGED << findVars, hairVars, shadeVars, mainVars >>

SpecLifetime == InitLifetime /\ [][NextLifetime]_vars

InitFind ==
    /\ InstIdle /\ DriverOffersNothing /\ HairIdle /\ ShadeIdle /\ MainIdle
    /\ f_requested \in SeqsUpTo(FindRequestedCaps, MaxFindReq)
    /\ f_available \in SeqsUpTo(FindCaps, MaxFindAvail)
    /\ f_result = <<>>
    /\ f_pc = "idle"

NextFind ==
    \/ CallFindExtensions /\ UNCHANGED << instVars, hairVars, shadeVars, mainVars >>
    \/ CallFindLayers /\ UNCHANGED << instVars, hairVars, shadeVars, mainVars >>

SpecFind == InitFind /\ [][NextFind]_vars

InitHair ==
    /\ InstIdle /\ DriverOffersNothing /\ FindIdle /\ HairIdle /\ ShadeIdle /\ MainIdle

NextHair ==
    \/ \E hs \in HairStyles :
          /\ HairStyleNew(hs)
          /\ UNCHANGED << q_last, instVars, findVars, shadeVars, mainVars >>
    \/ \E hs \in HairStyles :
          /\ HairStyleLoad(hs)
          /\ UNCHANGED << q_last, instVars, findVars, shadeVars, mainVars >>

SpecHair == InitHair /\ [][NextHair]_vars

\* Ray tracing against a hair object built, and rebuilt, from whole strands:
\* get_tangent and shade calls between the loads.
WholeStrands ==
    { [ vertices |-> v, indices |-> LineList(v) ] : v \in 2..MaxVertices }

NextQuery ==
    \/ \E hs \in WholeStrands :
          /\ HairStyleNew(hs)
          /\ UNCHANGED << q_last, instVars, findVars, shadeVars, mainVars >>
    \/ \E hs \in WholeStrands :
          /\ HairStyleLoad(hs)
          /\ UNCHANGED << q_last, instVars, findVars, shadeVars, mainVars >>
    \/ \E intersection \in Intersections, w_uninit \in { 0, 1 } :
          /\ GetTangent(intersection, w_uninit)
          /\ UNCHANGED << instVars, findVars, shadeVars, mainVars >>
    \/ \E intersection \in Intersections, w_uninit \in { 0, 1 },
          light_source \in LightSources, view_matrix \in ViewMatrices :
          /\ Shade(intersection, w_uninit, light_source, view_matrix)
          /\ UNCHANGED << instVars, findVars, shadeVars, mainVars >>

SpecQuery == InitHair /\ [][NextQuery]_vars

InitShade ==
    /\ InstIdle /\ DriverOffersNothing /\ FindIdle /\ HairIdle /\ MainIdle
    /\ k_args \in KajiyaKayArgs
    /\ k_locals = NoLocals
    /\ k_pc = "idle"

NextShade ==
    CallKajiyaKay /\ UNCHANGED << instVars, findVars, hairVars, mainVars >>

SpecShade == InitShade /\ [][NextShade]_vars

InitMain ==
    /\ InstIdle /\ DriverOffersNothing /\ FindIdle /\ HairIdle /\ ShadeIdle /\ MainIdle

NextMain ==
    \/ \E pressed \in SUBSET InputActions, ui_click \in BOOLEAN, close_request \in BOOLEAN :
          /\ Iterate(pressed, ui_click, close_request)
          /\ UNCHANGED << instVars, findVars, hairVars, shadeVars >>
    \/ LoopExit /\ UNCHANGED << instVars, findVars, hairVars, shadeVars >>

SpecMain == InitMain /\ [][NextMain]_vars

\* main runs on: a step that can be taken is taken.
SpecMainFair == SpecMain /\ WF_vars(NextMain)

----------------------------------------------------------------------------
(* Properties of vkpp::Instance *)

Range(seq) == { seq[i] : i \in 1..Len(seq) }

Built  == last_op.op = "construct" /\ last_op.ok
Failed == last_op.op = "construct" /\ ~last_op.ok
Moved  == last_op.op \in { "move_construct", "move_assign" }
Destroyed == last_op.op = "destroy"

\* C1 (as stated): after a successful construction a debug messenger is
\* attached if and only if the requested extensions do not contain
\* VK_EXT_debug_utils and the requested layers do not contain
\* VK_LAYER_LUNARG_standard_validation.
C1_AttachedUnlessRequested ==
    Built =>
        ( objs[last_op.obj].messenger # NullHandle
          <=> ( DebugExt \notin Names(last_op.extensions)
                /\ ValidationLayer \notin Names(last_op.layers) ) )

\* C1 (amended): after a successful construction a debug messenger is
\* attached if and only if the requested extensions contain
\* VK_EXT_debug_utils and the requested layers contain
\* VK_LAYER_LUNARG_standard_validation; then exactly one messenger is created,
\* bound to the new instance handle, and otherwise none is created.
C1_AttachedIffBothRequested ==
    Built =>
        LET o == objs[last_op.obj]
            both == /\ DebugExt \in Names(last_op.extensions)
                    /\ ValidationLayer \in Names(last_op.layers)
        IN  /\ (o.messenger # NullHandle) <=> both
            /\ both => /\ o.messenger = o.handle
                       /\ o.messenger \in live_messengers
                       /\ CountFn(calls, "vkCreateDebugUtilsMessengerEXT") = 1
            /\ ~both => CountFn(calls, "vkCreateDebugUtilsMessengerEXT") = 0

C1_Witness ==
    /\ Built
    /\ objs[last_op.obj].messenger # NullHandle
    /\ Len(last_op.layers) = 2
    /\ Len(last_op.extensions) = 2

\* C3: each of the two driver enumerations (layers, extensions) is performed
\* at most once in the process, whatever the driver reports (an empty list
\* included): no later call queries the driver again.
C3_EnumeratedAtMostOnce ==
    /\ layer_queries <= 1
    /\ ext_queries <= 1

\* C5: when construction fails, no driver object created by it is still live.
C5_FailureLeavesNothingLive ==
    Failed =>
        /\ last_op.handle \notin live_handles
        /\ last_op.handle \notin live_messengers

\* The requested names the driver does not offer.
MissingLayerNames == Names(last_op.layers) \ Names(driver_layers)
MissingExtNames   == Names(last_op.extensions) \ Names(driver_extensions)

\* C6 (as stated): when construction fails for missing capabilities, the
\* message holds the name of every missing layer and every missing extension.
C6_MessageNamesAllMissing ==
    (Failed /\ last_op.kind \in { "missing_layers", "missing_extensions" }) =>
        (MissingLayerNames \cup MissingExtNames) \subseteq Range(last_op.what)

\* C6 (amended): when any requested layer is missing the message holds the
\* name of every missing layer and of no extension; when no layer is missing
\* and an extension is, it holds the name of every missing extension.
C6_MessageNamesAllOfOneKind ==
    Failed =>
        /\ last_op.kind = "missing_layers" <=> MissingLayerNames # {}
        /\ last_op.kind = "missing_layers" =>
              /\ MissingLayerNames \subseteq Range(last_op.what)
              /\ Range(last_op.what) \cap ExtNames = {}
        /\ last_op.kind = "missing_extensions" <=>
              (MissingLayerNames = {} /\ MissingExtNames # {})
        /\ last_op.kind = "missing_extensions" =>
              /\ MissingExtNames \subseteq Range(last_op.what)
              /\ Range(last_op.what) \cap LayerNames = {}

C6_Witness ==
    /\ Failed
    /\ last_op.kind = "missing_layers"
    /\ Cardinality(MissingLayerNames) = 2
    /\ MissingExtNames # {}

\* C7: a destruction destroys the debug messenger (when there is one) before
\* the instance handle, and calls vkDestroyInstance exactly when the handle is
\* not null.
C7_MessengerBeforeHandle ==
    Destroyed =>
        /\ \A i, j \in 1..Len(calls) :
              ( calls[i].fn = "vkDestroyDebugUtilsMessengerEXT"
                /\ calls[j].fn = "vkDestroyInstance" ) => i < j
        /\ last_op.messenger # NullHandle =>
              CountCalls(calls, "vkDestroyDebugUtilsMessengerEXT", last_op.messenger) = 1
        /\ last_op.handle # NullHandle =>
              /\ CountCalls(calls, "vkDestroyInstance", last_op.handle) = 1
              /\ CountFn(calls, "vkDestroyInstance") = 1
        /\ last_op.handle = NullHandle => CountFn(calls, "vkDestroyInstance") = 0

C7_Witness ==
    /\ Destroyed
    /\ last_op.handle # NullHandle
    /\ last_op.messenger # NullHandle
    /\ Len(calls) = 2

\* C2 (as stated): after a move construction or a move assignment from
\* another object the source's handle is null, also when the destination
\* owned a live handle.
C2_SourceNullAfterMove ==
    (Moved /\ last_op.src # last_op.obj) => objs[last_op.src].handle = NullHandle

\* C2 (amended): a move exchanges the handles: the destination holds the
\* source's handle and the source holds what the destination held, which is
\* null after a move construction and after a move assignment onto a
\* destination with a null handle.  Destroying an object with a null handle
\* calls no vkDestroyInstance, destroying one with a handle releases that
\* handle, and no handle is ever released twice.
C2_MoveExchangesHandles ==
    /\ Moved =>
          /\ objs[last_op.obj].handle = last_op.src_handle
          /\ objs[last_op.src].handle = last_op.handle
    /\ last_op.op = "move_construct" => objs[last_op.src].handle = NullHandle
    /\ (Destroyed /\ last_op.handle = NullHandle) =>
          CountFn(calls, "vkDestroyInstance") = 0
    /\ (Destroyed /\ last_op.handle # NullHandle) =>
          /\ destroy_count[last_op.handle] = 1
          /\ last_op.handle \notin live_handles
    /\ \A h \in Handles : destroy_count[h] <= 1

\* The destination of an earlier move is destroyed: the handle it releases
\* was created by another object.
C2_Witness ==
    /\ Destroyed
    /\ last_op.handle # NullHandle
    /\ last_op.src # last_op.obj

----------------------------------------------------------------------------
(* Properties of Instance::find *)

FindBy(kind, requested, available) ==
    IF kind = "extensions" THEN findExtensions(requested, available)
                           ELSE findLayers(requested, available)

Swapped(seq, i, j) ==
    [ k \in 1..Len(seq) |-> IF k = i THEN seq[j] ELSE IF k = j THEN seq[i] ELSE seq[k] ]

Occurrences(seq, c) == Cardinality({ i \in 1..Len(seq) : seq[i] = c })

NameAvailable(c, available) ==
    \E i \in 1..Len(available) : available[i].name = c.name

NotIn_f_available(c) == ~NameAvailable(c, f_available)

\* C4: find(R, A) holds exactly the elements of R with no element of the same
\* name in A; it is empty iff every requested name is available; exchanging
\* two elements of A does not change it and exchanging two elements of R
\* changes only its order.
C4_FindIsRequestedMinusAvailable ==
    f_pc # "idle" =>
        /\ f_result = SelectSeq(f_requested, NotIn_f_available)
        /\ f_result = <<>> <=>
              \A i \in 1..Len(f_requested) : NameAvailable(f_requested[i], f_available)
        /\ \A i, j \in 1..Len(f_available) :
              FindBy(f_pc, f_requested, Swapped(f_available, i, j)) = f_result
        /\ \A i, j \in 1..Len(f_requested) :
              LET r == FindBy(f_pc, Swapped(f_requested, i, j), f_available)
              IN  /\ Len(r) = Len(f_result)
                  /\ \A c \in FindCaps : Occurrences(r, c) = Occurrences(f_result, c)

\* Some requested capability is missing, some is available under a record
\* that differs in its version, and the match is not the last available one.
C4_Witness ==
    /\ f_pc # "idle"
    /\ f_result # <<>>
    /\ Len(f_result) < Len(f_requested)
    /\ \E i \in 1..Len(f_requested) :
          /\ NameAvailable(f_requested[i], f_available)
          /\ f_requested[i] \notin Range(f_available)
          /\ f_available[Len(f_available)].name # f_requested[i].name

----------------------------------------------------------------------------
(* Properties of embree::HairStyle::load *)

LastIndices == h_last.hair_style.indices

\* C8: a load of 2N indices attaches one geometry of exactly N segments
\* (stride of two index elements, count = raw count / 2), and a load of an
\* odd number of indices attaches no geometry to the scene.
C8_PairsOrRejects ==
    h_built =>
        IF Len(LastIndices) % 2 = 0
        THEN /\ Len(h_attached) = h_last.attached_before + 1
             /\ h_attached[h_geometry + 1].index_stride = 2
             /\ h_attached[h_geometry + 1].index_count * 2 = Len(LastIndices)
        ELSE Len(h_attached) = h_last.attached_before

----------------------------------------------------------------------------
(* Properties of the frame loop *)

\* C9: every iteration issues exactly one rasterizer draw; with ray tracing
\* active the ray tracer draws first and the rasterizer then draws the ray
\* tracer's framebuffer, otherwise the ray tracer is not called and the
\* rasterizer draws the scene graph.
C9_OneFramePerIteration ==
    /\ m_frames = m_iterations
    /\ m_iterations > 0 =>
          /\ CountFn(m_calls, "rasterizer.draw") = 1
          /\ IF m_raytracing
             THEN /\ CountFn(m_calls, "ray_tracer.draw") = 1
                  /\ \E i, j \in 1..Len(m_calls) :
                        /\ i < j
                        /\ m_calls[i] = Call("ray_tracer.draw", "scene_graph")
                        /\ m_calls[j] = Call("rasterizer.draw", "ray_tracer.framebuffer")
             ELSE /\ CountFn(m_calls, "ray_tracer.draw") = 0
                  /\ \E j \in 1..Len(m_calls) :
                        m_calls[j] = Call("rasterizer.draw", "scene_graph")

\* A ray traced frame after the renderer was switched by the keyboard.
C9_Witness ==
    /\ m_iterations >= 2
    /\ m_raytracing
    /\ ChosenInput(m_pressed) = "switch_renderer"
    /\ CountFn(m_calls, "ray_tracer.draw") = 1
    /\ m_frames = m_iterations

----------------------------------------------------------------------------
(* Properties of kajiya_kay *)

NonNegative(x) == ~x.nan /\ x.v >= 0

\* C10: for every tangent, light and eye the operand of each square root is
\* not negative, the specular factor lies in [0, 1], and no component of the
\* returned colour is not-a-number or negative.
C10_ShadingHardened ==
    k_pc = "returned" =>
        /\ NonNegative(k_locals.one_minus_cosTL_squared)
        /\ NonNegative(k_locals.one_minus_cosTE_squared)
        /\ NonNegative(k_locals.specular_factor)
        /\ k_locals.specular_factor.v <= 1
        /\ \A i \in 1..3 : NonNegative(k_locals.result[i])

----------------------------------------------------------------------------
\* C11.  Shading symmetry: when kajiya_kay has returned for a light, an eye
\* and a tangent that are unit vectors with cosTL = cosTE = 1, the diffuse
\* term is zero in every channel, the specular term is the light intensity,
\* and so is the returned colour, whatever the diffuse colour and the
\* exponent were.
IsUnit(v) == Dot(v, v) = 1

AllParallelUnit ==
    /\ IsUnit(k_args.tangent) /\ IsUnit(k_args.light) /\ IsUnit(k_args.eye)
    /\ Dot(k_args.light, k_args.tangent) = 1
    /\ Dot(k_args.eye, k_args.tangent) = 1

Colour(c) == [ i \in 1..3 |-> F(c[i]) ]

C11_ParallelGivesLightIntensity ==
    (k_pc = "returned" /\ AllParallelUnit) =>
        /\ k_locals.diffuse_colors = Colour(<< 0, 0, 0 >>)
        /\ k_locals.specular_colors = Colour(k_args.specular)
        /\ k_locals.result = Colour(k_args.specular)

C11_Witness ==
    /\ k_pc = "returned"
    /\ AllParallelUnit
    /\ k_args.diffuse = HairDiffuse
    /\ k_args.specular = << 500, 250, 0 >>
    /\ k_args.p = Shininess
    /\ k_locals.result = Colour(<< 500, 250, 0 >>)

----------------------------------------------------------------------------
\* C12.  Shading and tangent interpolation are read-only: every step that is
\* a get_tangent or a shade call leaves the hair object's scene reference,
\* geometry identifier and position+thickness buffer and the scene's attached
\* geometries as they were, however the calls are interleaved with each
\* other and with loads; and the tangent get_tangent returns always has 0 as
\* its fourth component.
HairObject == << h_built, h_scene, h_geometry, h_position_thickness >>

C12_QueriesAreReadOnly ==
    /\ [](q_last.op # "none" => q_last.tangent[4] = 0)
    /\ [][ (q_last' # q_last) =>
              (HairObject' = HairObject /\ h_attached' = h_attached) ]_vars

C12_Witness ==
    /\ q_last.op = "shade"
    /\ q_last.intersection = [ primitive_id |-> 1, u |-> 1 ]
    /\ q_last.tangent = << 0, 0, 1, 0 >>
    /\ h_loads = 1
    /\ Len(h_attached) = 2

----------------------------------------------------------------------------
\* C13.  Construction step order: an Instance construction that finds a
\* requested layer unavailable fails for the layers, whatever the extensions
\* are, and one that finds only an extension unavailable fails for the
\* extensions, both without any driver call; vkCreateInstance is the first
\* driver call and is issued only when nothing requested is unavailable; the
\* messenger's creation is the second call, issued only after vkCreateInstance
\* returned a handle, and a messenger that was created belongs to that handle.
CallsOf(fn) == { i \in 1..Len(calls) : calls[i].fn = fn }

C13_StepsInOrder ==
    (last_op.op = "construct") =>
        /\ (MissingLayerNames # {}) =>
               (~last_op.ok /\ last_op.kind = "missing_layers" /\ calls = <<>>)
        /\ (MissingLayerNames = {} /\ MissingExtNames # {}) =>
               (~last_op.ok /\ last_op.kind = "missing_extensions" /\ calls = <<>>)
        /\ \A i \in CallsOf("vkCreateInstance") :
               i = 1 /\ MissingLayerNames = {} /\ MissingExtNames = {}
        /\ \A i \in CallsOf("vkCreateDebugUtilsMessengerEXT") :
               /\ i = 2
               /\ calls[1].fn = "vkCreateInstance"
               /\ calls[1].arg # NullHandle
               /\ calls[1].arg = last_op.handle
        /\ (last_op.messenger # NullHandle) =>
               /\ last_op.handle # NullHandle
               /\ last_op.messenger = last_op.handle
               /\ last_op.handle \in live_handles
        /\ live_messengers \subseteq live_handles

C13_Witness ==
    /\ Built
    /\ last_op.layers # <<>>
    /\ last_op.extensions # <<>>
    /\ Len(calls) = 2
    /\ calls[1] = Call("vkCreateInstance", last_op.handle)
    /\ calls[2].fn = "vkCreateDebugUtilsMessengerEXT"
    /\ last_op.messenger = last_op.handle
    /\ last_op.handle # NullHandle

----------------------------------------------------------------------------
\* C14.  Exactly-once release: no context handle is ever passed to
\* vkDestroyInstance twice, and once no Instance object is left alive every
\* handle vkCreateInstance returned has been passed to it exactly once.
NoInstanceAlive == \A o \in Objs : objs[o].state # "live"

CreatedHandles == 1..(next_handle - 1)

C14_EveryHandleReleasedOnce ==
    /\ \A h \in Handles : destroy_count[h] <= 1
    /\ \A h \in Handles : (destroy_count[h] > 0) => (h \notin live_handles)
    /\ NoInstanceAlive => \A h \in CreatedHandles : destroy_count[h] = 1

----------------------------------------------------------------------------
\* C15.  One geometry per hair object: after the constructor's load and any
\* further loads, exactly one geometry of the object is attached to the scene,
\* get_geometry returns its identifier, and every geometry still attached
\* shares the storage position_thickness currently holds.
AttachedIds == 0..(Len(h_attached) - 1)

C15_OneGeometryOnLiveBuffer ==
    h_built =>
        /\ Cardinality(AttachedIds) = 1
        /\ get_geometry \in AttachedIds
        /\ \A id \in AttachedIds :
               h_attached[id + 1].vertex_buffer = h_position_thickness.buffer

----------------------------------------------------------------------------
\* C16.  Frame-loop input handling and shutdown: an iteration calls the
\* handler of at most one input action, that of the pressed action that comes
\* first in the order quit, toggle_ui, switch_renderer, take_screenshot,
\* recompile, and no handler of any other pressed action; an iteration in
\* which quit is pressed closes the window and still draws its one frame
\* after that; once the window is closed no further iteration starts (no
\* more calls, frames or iterations) and the loop is eventually left.
Priority == << "quit", "toggle_ui", "switch_renderer", "take_screenshot", "recompile" >>

Handler ==
    [ a \in InputActions |->
        CASE a = "quit"            -> "window.close"
          [] a = "toggle_ui"       -> "imgui.toggle_visibility"
          [] a = "switch_renderer" -> "imgui.toggle_raytracing"
          [] a = "take_screenshot" -> "screenshot.save"
          [] a = "recompile"       -> "rasterizer.recompile_spirv" ]

HandlersCalled == { a \in InputActions : CountFn(m_calls, Handler[a]) > 0 }

Rank(a) == CHOOSE i \in 1..Len(Priority) : Priority[i] = a

FirstInPriority(pressed) ==
    { a \in pressed : \A b \in pressed : Rank(a) <= Rank(b) }

C16_OneInputThenShutdown ==
    /\ [](m_iterations > 0 =>
            /\ HandlersCalled = FirstInPriority(m_pressed)
            /\ \A a \in HandlersCalled : CountFn(m_calls, Handler[a]) = 1
            /\ ("quit" \in m_pressed) =>
                   /\ ~m_window_open
                   /\ CountFn(m_calls, "rasterizer.draw") = 1
                   /\ \E i, j \in 1..Len(m_calls) :
                          /\ i < j
                          /\ m_calls[i].fn = "window.close"
                          /\ m_calls[j].fn = "rasterizer.draw")
    /\ [][ ~m_window_open =>
              /\ m_iterations' = m_iterations
              /\ m_frames' = m_frames
              /\ m_calls' = m_calls ]_vars
    /\ (~m_window_open ~> m_done)

C16_Witness ==
    /\ m_pressed = InputActions
    /\ HandlersCalled = { "quit" }
    /\ m_iterations = 2
    /\ m_frames = 2
    /\ m_done

====
